---- MODULE Spec2Model ----
(***************************************************************************)
(* Causal-graph traversal and validation of theory_engine                  *)
(* (src/converters/whyzen_graph_utils.py).                                 *)
(*                                                                         *)
(* An EdgeMap is the Python dict {node_name: [parent_names]}.  A dict      *)
(* iterates in insertion order, so it is modelled as a sequence of         *)
(* <<key, value>> pairs with pairwise distinct keys.  Every public         *)
(* function is an operator that follows the loops of the source; the       *)
(* actions apply them to the EdgeMap chosen in Init and record the call    *)
(* and what it returned (or raised).                                       *)
(***************************************************************************)
EXTENDS Integers, Sequences, FiniteSets, TLC

VARIABLES edge_map, op, args, result, frames, visited, found, steps,
          active_jobs, job_counter, issued, terminal

\* the job registry of the server, and the record of what it has answered:
\* the job ids it handed out and the job ids it gave a final answer for
registry == <<active_jobs, job_counter, issued, terminal>>

vars == <<edge_map, op, args, result, frames, visited, found, steps,
          active_jobs, job_counter, issued, terminal>>

(***************************************************************************)
(* Bounds of the enumerated inputs.                                        *)
(***************************************************************************)
\* total number of parent entries of an enumerated EdgeMap
MaxEdges == 3

\* node identifiers the enumerated EdgeMaps are built from
Nodes == {"A", "B", "C"}

\* identifiers queries are asked about: "D" is absent from every enumerated
\* EdgeMap and a key of the diamond of the specification's example
AllNodes == Nodes \cup {"D"}

(***************************************************************************)
(* Python dict and list helpers.                                           *)
(***************************************************************************)
Range(s) == {s[i] : i \in 1..Len(s)}

\* dict.keys(), in insertion order
DictKeys(d) == [i \in 1..Len(d) |-> d[i][1]]

\* key in d
HasKey(d, k) == \E i \in 1..Len(d) : d[i][1] = k

\* d.get(k, default)
DictGet(d, k, default) ==
    IF HasKey(d, k) THEN d[CHOOSE i \in 1..Len(d) : d[i][1] = k][2] ELSE default

\* d[k] = v: an existing key keeps its position, a new key goes last
DictSet(d, k, v) ==
    IF HasKey(d, k)
    THEN [i \in 1..Len(d) |-> IF d[i][1] = k THEN <<k, v>> ELSE d[i]]
    ELSE Append(d, <<k, v>>)

\* x in lst
InList(x, lst) == \E i \in 1..Len(lst) : lst[i] = x

\* a list holds no element twice
NoDup(s) == \A i, j \in 1..Len(s) : s[i] = s[j] => i = j

(***************************************************************************)
(* The enumerated EdgeMaps: every sequence of distinct keys over Nodes,    *)
(* every parent list over Nodes (repeats, self-parents, parents that are   *)
(* not keys and cycles included), at most MaxEdges parent entries in all.  *)
(***************************************************************************)
RECURSIVE SeqsOfLen(_, _)
SeqsOfLen(S, n) ==
    IF n = 0 THEN {<<>>}
    ELSE {Append(s, x) : s \in SeqsOfLen(S, n - 1), x \in S}

RECURSIVE EdgeMapsFrom(_, _)
EdgeMapsFrom(used, budget) ==
    {<<>>} \cup
    UNION {UNION {{<<<<k, ps>>>> \o rest :
                      rest \in EdgeMapsFrom(used \cup {k}, budget - Len(ps))} :
                  ps \in UNION {SeqsOfLen(Nodes, n) : n \in 0..budget}} :
           k \in Nodes \ used}

\* {A: [], B: [A], C: [A], D: [B, C]}, Example 1 of the specification
Diamond ==
    << <<"A", <<>>>>, <<"B", <<"A">>>>, <<"C", <<"A">>>>, <<"D", <<"B", "C">>>> >>

\* EdgeMaps over four nodes, beyond what MaxEdges allows: the diamond, a
\* chain, a ring, a branch that ends in a parent that is not a key, two
\* rings of different length through one node, and two branches of
\* different length to one node
Samples ==
    { Diamond,
      << <<"A", <<>>>>, <<"B", <<"A">>>>, <<"C", <<"B">>>>, <<"D", <<"C">>>> >>,
      << <<"A", <<"D">>>>, <<"B", <<"A">>>>, <<"C", <<"B">>>>, <<"D", <<"C">>>> >>,
      << <<"D", <<"B", "C">>>>, <<"B", <<"A">>>>, <<"C", <<>>>> >>,
      << <<"A", <<"B", "C">>>>, <<"B", <<"A">>>>, <<"C", <<"D">>>>, <<"D", <<"A">>>> >>,
      << <<"D", <<"C", "B">>>>, <<"C", <<"A">>>>, <<"B", <<"C">>>>, <<"A", <<>>>> >> }

EdgeMaps == EdgeMapsFrom({}, MaxEdges) \cup Samples

(***************************************************************************)
(* _build_children_map: the reverse index.                                 *)
(***************************************************************************)
\* inner loop: child_name is appended to the entry of each of its parents,
\* a parent without an entry gets one
RECURSIVE AddToParents(_, _, _, _)
AddToParents(children, child_name, parent_names, j) ==
    IF j > Len(parent_names) THEN children
    ELSE LET parent_name == parent_names[j]
             next == IF HasKey(children, parent_name)
                     THEN DictSet(children, parent_name,
                                  Append(DictGet(children, parent_name, <<>>), child_name))
                     ELSE DictSet(children, parent_name, <<child_name>>)
         IN AddToParents(next, child_name, parent_names, j + 1)

\* outer loop over edges.items()
RECURSIVE AddChildren(_, _, _)
AddChildren(children, edges, i) ==
    IF i > Len(edges) THEN children
    ELSE AddChildren(AddToParents(children, edges[i][1], edges[i][2], 1), edges, i + 1)

\* faulty variant: the EdgeMap is walked from its last key to its first
build_children_map_BackToFront(edges) ==
    AddChildren([i \in 1..Len(edges) |-> <<edges[i][1], <<>>>>],
                [i \in 1..Len(edges) |-> edges[Len(edges) + 1 - i]], 1)

build_children_map(edges) ==
    AddChildren([i \in 1..Len(edges) |-> <<edges[i][1], <<>>>>], edges, 1)

(***************************************************************************)
(* What a call gives back: a value, or the exception it raised.            *)
(***************************************************************************)
Returned(v) == [raised |-> "none", value |-> v]
Raised(e) == [raised |-> e, value |-> <<>>]

(***************************************************************************)
(* topological_sort: Kahn's algorithm.                                     *)
(***************************************************************************)
\* for child in children_map.get(node, []): in_degree[child] -= 1, and the
\* child is queued when its count reaches 0.  Every child is a key of edges,
\* so in_degree[child] exists.
RECURSIVE RelaxChildren(_, _, _)
RelaxChildren(children, j, st) ==
    IF j > Len(children) THEN st
    ELSE LET child == children[j]
             deg == DictGet(st.in_degree, child, 0) - 1
         IN RelaxChildren(children, j + 1,
                [st EXCEPT !.in_degree = DictSet(@, child, deg),
                           !.queue = IF deg = 0 THEN Append(@, child) ELSE @])

\* while queue: node = queue.popleft(); result.append(node); ...
RECURSIVE KahnLoop(_, _)
KahnLoop(children_map, st) ==
    IF st.queue = <<>> THEN st
    ELSE LET node == Head(st.queue)
             popped == [st EXCEPT !.queue = Tail(@), !.result = Append(@, node)]
         IN KahnLoop(children_map,
                     RelaxChildren(DictGet(children_map, node, <<>>), 1, popped))

\* the state the while loop starts from
KahnStart(em) ==
    [in_degree |-> [i \in 1..Len(em) |-> <<em[i][1], Len(em[i][2])>>],
     queue |-> SelectSeq(DictKeys(em), LAMBDA name : Len(DictGet(em, name, <<>>)) = 0),
     result |-> <<>>]

\* faulty variant: the length test before the return is left out
topological_sort_Unchecked(em) ==
    Returned(KahnLoop(build_children_map(em), KahnStart(em)).result)

topological_sort(em) ==
    LET done == KahnLoop(build_children_map(em), KahnStart(em))
    IN IF Len(done.result) # Len(em) THEN Raised("ValueError")
       ELSE Returned(done.result)

(***************************************************************************)
(* would_create_cycle(source_name, target_name).                           *)
(***************************************************************************)
\* can_reach(current, goal) with the visited set its calls share; gives
\* back the answer and the visited set it leaves behind
RECURSIVE can_reach(_, _, _, _)
RECURSIVE AnyChildReaches(_, _, _, _, _)
can_reach(children_map, current, goal, seen) ==
    IF current = goal THEN [found |-> TRUE, seen |-> seen]
    ELSE IF current \in seen THEN [found |-> FALSE, seen |-> seen]
    ELSE AnyChildReaches(children_map, DictGet(children_map, current, <<>>), 1, goal,
                         seen \cup {current})

AnyChildReaches(children_map, children, j, goal, seen) ==
    IF j > Len(children) THEN [found |-> FALSE, seen |-> seen]
    ELSE LET r == can_reach(children_map, children[j], goal, seen)
         IN IF r.found THEN r
            ELSE AnyChildReaches(children_map, children, j + 1, goal, r.seen)

\* faulty variant: only the direct children of the target are examined
would_create_cycle_DirectOnly(em, source_name, target_name) ==
    IF source_name = target_name THEN TRUE
    ELSE InList(source_name, DictGet(build_children_map(em), target_name, <<>>))

\* faulty variant: the search runs from the source towards the target
would_create_cycle_Forward(em, source_name, target_name) ==
    IF source_name = target_name THEN TRUE
    ELSE can_reach(build_children_map(em), source_name, target_name, {}).found

would_create_cycle(em, source_name, target_name) ==
    IF source_name = target_name THEN TRUE
    ELSE can_reach(build_children_map(em), target_name, source_name, {}).found

(***************************************************************************)
(* get_ancestors / get_descendants: recursive depth-first traversal.  The  *)
(* nested function traverse shares visited and the output list with its    *)
(* caller, so the operator threads them through as st.                     *)
(***************************************************************************)
RECURSIVE traverse_parents(_, _, _)
RECURSIVE EachParent(_, _, _, _)
\* traverse(current) of get_ancestors
traverse_parents(em, current, st) ==
    EachParent(em, DictGet(em, current, <<>>), 1, st)

\* for parent in parents: if parent not in visited: ...
EachParent(em, parents, j, st) ==
    IF j > Len(parents) THEN st
    ELSE LET parent == parents[j]
         IN IF parent \notin st.visited
            THEN EachParent(em, parents, j + 1,
                     traverse_parents(em, parent,
                         [visited |-> st.visited \cup {parent},
                          out |-> Append(st.out, parent)]))
            ELSE EachParent(em, parents, j + 1, st)

\* faulty variant: a node is listed after its own ancestors (post-order)
RECURSIVE PostOrderParents(_, _, _, _)
PostOrderParents(em, parents, j, st) ==
    IF j > Len(parents) THEN st
    ELSE LET parent == parents[j]
         IN IF parent \notin st.visited
            THEN LET below == PostOrderParents(em, DictGet(em, parent, <<>>), 1,
                                  [st EXCEPT !.visited = @ \cup {parent}])
                 IN PostOrderParents(em, parents, j + 1,
                        [below EXCEPT !.out = Append(@, parent)])
            ELSE PostOrderParents(em, parents, j + 1, st)

get_ancestors_PostOrder(em, node_name) ==
    PostOrderParents(em, DictGet(em, node_name, <<>>), 1,
                     [visited |-> {}, out |-> <<>>]).out

get_ancestors(em, node_name) ==
    traverse_parents(em, node_name, [visited |-> {}, out |-> <<>>]).out

RECURSIVE traverse_children(_, _, _)
RECURSIVE EachChild(_, _, _, _)
\* traverse(current) of get_descendants
traverse_children(children_map, current, st) ==
    EachChild(children_map, DictGet(children_map, current, <<>>), 1, st)

\* for child in children: if child not in visited: ...
EachChild(children_map, children, j, st) ==
    IF j > Len(children) THEN st
    ELSE LET child == children[j]
         IN IF child \notin st.visited
            THEN EachChild(children_map, children, j + 1,
                     traverse_children(children_map, child,
                         [visited |-> st.visited \cup {child},
                          out |-> Append(st.out, child)]))
            ELSE EachChild(children_map, children, j + 1, st)

\* faulty variant: each children list is walked from its last entry to its first
get_descendants_LastChildFirst(em, node_name) ==
    LET children_map == build_children_map(em)
        flipped == [i \in 1..Len(children_map) |->
                       <<children_map[i][1],
                         [h \in 1..Len(children_map[i][2]) |->
                             children_map[i][2][Len(children_map[i][2]) + 1 - h]]>>]
    IN traverse_children(flipped, node_name, [visited |-> {}, out |-> <<>>]).out

get_descendants(em, node_name) ==
    traverse_children(build_children_map(em), node_name,
                      [visited |-> {}, out |-> <<>>]).out

(***************************************************************************)
(* is_ancestor, is_descendant, get_relationship.                           *)
(***************************************************************************)
is_ancestor(em, potential_ancestor, node_name) ==
    IF potential_ancestor = node_name THEN FALSE
    ELSE InList(potential_ancestor, get_ancestors(em, node_name))

is_descendant(em, potential_descendant, node_name) ==
    IF potential_descendant = node_name THEN FALSE
    ELSE InList(potential_descendant, get_descendants(em, node_name))

\* faulty variant: the direct child test is left out
get_relationship_NoChildTest(em, node_a, node_b) ==
    IF node_a = node_b THEN "self"
    ELSE IF InList(node_a, DictGet(em, node_b, <<>>)) THEN "parent"
    ELSE IF is_ancestor(em, node_a, node_b) THEN "ancestor"
    ELSE IF is_descendant(em, node_a, node_b) THEN "descendant"
    ELSE "unconnected"

\* faulty variant: the transitive tests come before the direct ones
get_relationship_TransitiveFirst(em, node_a, node_b) ==
    IF node_a = node_b THEN "self"
    ELSE IF is_ancestor(em, node_a, node_b) THEN "ancestor"
    ELSE IF is_descendant(em, node_a, node_b) THEN "descendant"
    ELSE IF InList(node_a, DictGet(em, node_b, <<>>)) THEN "parent"
    ELSE IF InList(node_b, DictGet(em, node_a, <<>>)) THEN "child"
    ELSE "unconnected"

get_relationship(em, node_a, node_b) ==
    IF node_a = node_b THEN "self"
    ELSE IF InList(node_a, DictGet(em, node_b, <<>>)) THEN "parent"
    ELSE IF InList(node_b, DictGet(em, node_a, <<>>)) THEN "child"
    ELSE IF is_ancestor(em, node_a, node_b) THEN "ancestor"
    ELSE IF is_descendant(em, node_a, node_b) THEN "descendant"
    ELSE "unconnected"

(***************************************************************************)
(* get_ancestors_with_degree / get_descendants_with_degree: breadth-first. *)
(* visited is a dict name -> degree (insertion ordered), the queue holds   *)
(* <<name, degree>>, the result is the items of visited sorted by degree.  *)
(* The 'node' field of a result entry is the model's node object, which    *)
(* the traversal does not read; an entry is modelled as <<name, degree>>.  *)
(***************************************************************************)
\* for neighbour in neighbours: if neighbour not in visited: ...
RECURSIVE EnqueueNew(_, _, _, _)
EnqueueNew(neighbours, j, degree, st) ==
    IF j > Len(neighbours) THEN st
    ELSE LET nb == neighbours[j]
         IN IF ~HasKey(st.visited, nb)
            THEN EnqueueNew(neighbours, j + 1, degree,
                     [visited |-> DictSet(st.visited, nb, degree + 1),
                      queue |-> Append(st.queue, <<nb, degree + 1>>)])
            ELSE EnqueueNew(neighbours, j + 1, degree, st)

\* faulty variant: queue.pop() in place of queue.popleft()
RECURSIVE DegreeLoop_PopRight(_, _)
DegreeLoop_PopRight(adjacency, st) ==
    IF st.queue = <<>> THEN st.visited
    ELSE LET last == st.queue[Len(st.queue)]
         IN DegreeLoop_PopRight(adjacency,
                EnqueueNew(DictGet(adjacency, last[1], <<>>), 1, last[2],
                           [st EXCEPT !.queue = SubSeq(@, 1, Len(@) - 1)]))

\* while queue: current, degree = queue.popleft(); ...
RECURSIVE DegreeLoop(_, _)
DegreeLoop(adjacency, st) ==
    IF st.queue = <<>> THEN st.visited
    ELSE LET current == Head(st.queue)[1]
             degree == Head(st.queue)[2]
         IN DegreeLoop(adjacency,
                EnqueueNew(DictGet(adjacency, current, <<>>), 1, degree,
                           [st EXCEPT !.queue = Tail(@)]))

\* sorted(result, key=lambda x: x['degree']): a stable sort
RECURSIVE sorted_by_degree(_)
sorted_by_degree(items) ==
    IF items = <<>> THEN <<>>
    ELSE LET low == CHOOSE d \in {items[i][2] : i \in 1..Len(items)} :
                        \A i \in 1..Len(items) : d <= items[i][2]
         IN SelectSeq(items, LAMBDA x : x[2] = low)
                \o sorted_by_degree(SelectSeq(items, LAMBDA x : x[2] # low))

\* faulty variant: the start node counts as visited from the beginning
get_ancestors_with_degree_StartVisited(em, node_name) ==
    sorted_by_degree(SelectSeq(
        DegreeLoop(em, [visited |-> <<<<node_name, 0>>>>, queue |-> <<<<node_name, 0>>>>]),
        LAMBDA x : x[2] # 0))

get_ancestors_with_degree(em, node_name) ==
    sorted_by_degree(DegreeLoop(em, [visited |-> <<>>, queue |-> <<<<node_name, 0>>>>]))

get_descendants_with_degree(em, node_name) ==
    sorted_by_degree(DegreeLoop(build_children_map(em),
                                [visited |-> <<>>, queue |-> <<<<node_name, 0>>>>]))

(***************************************************************************)
(* get_parents / get_children / get_roots / get_leaves.  A Python list is  *)
(* modelled with its identity: the parent list stored under key k of the   *)
(* EdgeMap has identity k, a list built during the call is "fresh".        *)
(***************************************************************************)
ListObject(id, items) == [id |-> id, items |-> items]

\* edge_map.get(node_name, []): the stored list itself, or a new empty list
stored_parents(em, node_name) ==
    IF HasKey(em, node_name)
    THEN ListObject(node_name, DictGet(em, node_name, <<>>))
    ELSE ListObject("fresh", <<>>)

\* lst.copy()
list_copy(lst) == ListObject("fresh", lst.items)

\* faulty variant: the list of an unknown node is looked up without default
get_parents_Subscript(em, node_name) ==
    IF HasKey(em, node_name)
    THEN Returned(list_copy(stored_parents(em, node_name)))
    ELSE Raised("KeyError")

\* faulty variant: the stored list is handed out
get_parents_NoCopy(em, node_name) == Returned(stored_parents(em, node_name))

get_parents(em, node_name) == Returned(list_copy(stored_parents(em, node_name)))

get_children(em, node_name) ==
    Returned(list_copy(ListObject("fresh",
                                  DictGet(build_children_map(em), node_name, <<>>))))

\* [name for name, lst in d.items() if not lst]
KeysOfEmpty(d) ==
    LET kept == SelectSeq(d, LAMBDA entry : entry[2] = <<>>)
    IN [i \in 1..Len(kept) |-> kept[i][1]]

get_roots(em) == KeysOfEmpty(em)

\* faulty variant: the keys without parents are listed
get_leaves_OfEdgeMap(em) == KeysOfEmpty(em)

get_leaves(em) == KeysOfEmpty(build_children_map(em))

(***************************************************************************)
(* get_path(source, target): breadth-first search over the children index. *)
(* Optional[List[str]] is modelled as [found, path]: None is found = FALSE.*)
(***************************************************************************)
NoPath == [found |-> FALSE, path |-> <<>>]
SomePath(p) == [found |-> TRUE, path |-> p]

\* list(reversed(path))
Reversed(lst) == [i \in 1..Len(lst) |-> lst[Len(lst) + 1 - i]]

\* while node in parent_map: node = parent_map[node]; path.append(node)
RECURSIVE PathBack(_, _, _)
PathBack(parent_map, node, path) ==
    IF HasKey(parent_map, node)
    THEN LET up == DictGet(parent_map, node, node)
         IN PathBack(parent_map, up, Append(path, up))
    ELSE path

\* for child in children_map.get(current, []): a new child is marked and
\* given its BFS parent; the target ends the search with the path to it,
\* any other new child is queued
RECURSIVE ScanChildren(_, _, _, _, _)
ScanChildren(children, j, current, target, st) ==
    IF j > Len(children) \/ st.answer.found THEN st
    ELSE LET child == children[j]
         IN IF child \in st.visited
            THEN ScanChildren(children, j + 1, current, target, st)
            ELSE LET marked == [st EXCEPT !.visited = @ \cup {child},
                                          !.parent_map = DictSet(@, child, current)]
                 IN IF child = target
                    THEN [marked EXCEPT !.answer =
                             SomePath(Reversed(PathBack(marked.parent_map, target,
                                                        <<target>>)))]
                    ELSE ScanChildren(children, j + 1, current, target,
                                      [marked EXCEPT !.queue = Append(@, child)])

\* faulty variant: only the children of the first node are examined
PathLoop_FirstNodeOnly(children_map, target, st) ==
    IF st.queue = <<>> THEN st.answer
    ELSE ScanChildren(DictGet(children_map, Head(st.queue), <<>>), 1, Head(st.queue),
                      target, [st EXCEPT !.queue = Tail(@)]).answer

\* while queue: current = queue.popleft(); ...
RECURSIVE PathLoop(_, _, _)
PathLoop(children_map, target, st) ==
    IF st.queue = <<>> \/ st.answer.found THEN st.answer
    ELSE LET current == Head(st.queue)
         IN PathLoop(children_map, target,
                ScanChildren(DictGet(children_map, current, <<>>), 1, current, target,
                             [st EXCEPT !.queue = Tail(@)]))

\* faulty variant: the search follows parent edges
get_path_AlongParents(em, source, target) ==
    IF source = target THEN SomePath(<<source>>)
    ELSE PathLoop(em, target,
                  [visited |-> {source}, parent_map |-> <<>>, queue |-> <<source>>,
                   answer |-> NoPath])

get_path(em, source, target) ==
    IF source = target THEN SomePath(<<source>>)
    ELSE PathLoop(build_children_map(em), target,
                  [visited |-> {source}, parent_map |-> <<>>, queue |-> <<source>>,
                   answer |-> NoPath])

(***************************************************************************)
(* topology_validator: a Causeway JSON document is modelled as             *)
(* [nodes |-> list of node ids, edges |-> list of <<source, target>>].     *)
(***************************************************************************)
\* bound on the number of edges of an enumerated document or parsed EdgeMap
MaxJsonEdges == 2

\* node ids of the enumerated documents
GraphIds == {"A", "B"}

\* the edges printed by TopologyReport.__str__: list(...)[:5]
ShownEdges == 5

IdLists ==
    {ids \in UNION {SeqsOfLen(GraphIds, n) : n \in 0..Cardinality(GraphIds)} : NoDup(ids)}

EdgeLists == UNION {SeqsOfLen(GraphIds \X GraphIds, n) : n \in 0..MaxJsonEdges}

\* nodes [P, Q] with the single edge (P, P)
SelfLoopJson == [nodes |-> <<"P", "Q">>, edges |-> <<<<"P", "P">>>>]

\* three nodes with every edge between two different nodes
DenseJson ==
    [nodes |-> <<"A", "B", "C">>,
     edges |-> <<<<"A", "B">>, <<"A", "C">>, <<"B", "A">>,
                 <<"B", "C">>, <<"C", "A">>, <<"C", "B">>>>]

Jsons ==
    {[nodes |-> ids, edges |-> es] : ids \in IdLists, es \in EdgeLists}
        \cup {SelfLoopJson, DenseJson}

\* parsed EdgeMaps handed to validate_parsed_edges
ParsedMaps ==
    {em \in EdgeMapsFrom(Nodes \ GraphIds, MaxJsonEdges) :
        \A i \in 1..Len(em) : Range(em[i][2]) \subseteq GraphIds}

\* an executed Whyzen model, as far as extract_edges_from_whyzen_model reads
\* it: the node names and, for each mechanism input whose tensor belongs to
\* a node, the pair <<that node, the node with the input>>
WhyzenModels ==
    UNION {{[nodes |-> ns, inputs |-> ins] : ins \in SUBSET (ns \X ns)} :
           ns \in SUBSET GraphIds}

\* (nodes, edges) of a Causeway JSON document
extract_edges_from_causeway_json(causeway_json) ==
    [nodes |-> Range(causeway_json.nodes), edges |-> Range(causeway_json.edges)]

\* (nodes, edges) of a Whyzen model: an input from the node itself is skipped
extract_edges_from_whyzen_model(model) ==
    [nodes |-> model.nodes, edges |-> {e \in model.inputs : e[1] # e[2]}]

\* the keys and the (parent, target) pairs of a parsed EdgeMap
parsed_topology(parsed_edges) ==
    [nodes |-> Range(DictKeys(parsed_edges)),
     edges |-> UNION {{<<parsed_edges[i][2][j], parsed_edges[i][1]>> :
                          j \in 1..Len(parsed_edges[i][2])} :
                      i \in 1..Len(parsed_edges)}]

\* faulty variant: the node differences are attributed to the wrong side
compare_topologies_SidesSwapped(nodes_a, edges_a, nodes_b, edges_b) ==
    [is_valid |-> nodes_a = nodes_b /\ edges_a = edges_b,
     node_count_match |-> Cardinality(nodes_a) = Cardinality(nodes_b),
     edge_count_match |-> Cardinality(edges_a) = Cardinality(edges_b),
     missing_nodes_in_a |-> nodes_a \ nodes_b,
     missing_nodes_in_b |-> nodes_b \ nodes_a,
     missing_edges_in_a |-> edges_b \ edges_a,
     missing_edges_in_b |-> edges_a \ edges_b]

compare_topologies(nodes_a, edges_a, nodes_b, edges_b) ==
    LET missing_nodes_in_a == nodes_b \ nodes_a
        missing_nodes_in_b == nodes_a \ nodes_b
        missing_edges_in_a == edges_b \ edges_a
        missing_edges_in_b == edges_a \ edges_b
    IN [is_valid |-> /\ Cardinality(missing_nodes_in_a) = 0
                     /\ Cardinality(missing_nodes_in_b) = 0
                     /\ Cardinality(missing_edges_in_a) = 0
                     /\ Cardinality(missing_edges_in_b) = 0,
        node_count_match |-> Cardinality(nodes_a) = Cardinality(nodes_b),
        edge_count_match |-> Cardinality(edges_a) = Cardinality(edges_b),
        missing_nodes_in_a |-> missing_nodes_in_a,
        missing_nodes_in_b |-> missing_nodes_in_b,
        missing_edges_in_a |-> missing_edges_in_a,
        missing_edges_in_b |-> missing_edges_in_b]

\* list(s)[:5]: the iteration order of a set of tuples of strings is not
\* fixed, so any ShownEdges elements may be the ones printed
FirstShown(s) ==
    {shown \in SUBSET s :
        Cardinality(shown) = IF Cardinality(s) < ShownEdges THEN Cardinality(s)
                             ELSE ShownEdges}

\* TopologyReport.__str__: the text, as the facts its lines state; a line
\* that is left out leaves its field FALSE or empty
report_str(report) ==
    IF report.is_valid
    THEN {[matches |-> TRUE, node_count_differs |-> FALSE, edge_count_differs |-> FALSE,
           nodes_missing_in_a |-> {}, nodes_missing_in_b |-> {},
           edges_missing_in_a |-> {}, edges_missing_in_b |-> {}]}
    ELSE {[matches |-> FALSE,
           node_count_differs |-> ~report.node_count_match,
           edge_count_differs |-> ~report.edge_count_match,
           nodes_missing_in_a |-> report.missing_nodes_in_a,
           nodes_missing_in_b |-> report.missing_nodes_in_b,
           edges_missing_in_a |-> in_a,
           edges_missing_in_b |-> in_b] :
             in_a \in FirstShown(report.missing_edges_in_a),
             in_b \in FirstShown(report.missing_edges_in_b)}

\* raise TopologyMismatch(str(report)): the outcomes the raise can have
TopologyMismatch(report) ==
    {[raised |-> "TopologyMismatch", value |-> text] : text \in report_str(report)}

\* the three wrappers: the set of outcomes of a call
validate_topology(whyzen_model, causeway_json, raise_on_mismatch) ==
    LET whyzen == extract_edges_from_whyzen_model(whyzen_model)
        causeway == extract_edges_from_causeway_json(causeway_json)
        report == compare_topologies(whyzen.nodes, whyzen.edges,
                                     causeway.nodes, causeway.edges)
    IN IF ~report.is_valid /\ raise_on_mismatch
       THEN TopologyMismatch(report)
       ELSE {Returned(report)}

validate_topology_from_files(json_a, json_b, raise_on_mismatch) ==
    LET a == extract_edges_from_causeway_json(json_a)
        b == extract_edges_from_causeway_json(json_b)
        report == compare_topologies(a.nodes, a.edges, b.nodes, b.edges)
    IN IF ~report.is_valid /\ raise_on_mismatch
       THEN TopologyMismatch(report)
       ELSE {Returned(report)}

\* faulty variant: a mismatch is raised whatever raise_on_mismatch says
validate_parsed_edges_AlwaysRaises(parsed_edges, causeway_json, raise_on_mismatch) ==
    LET parsed == parsed_topology(parsed_edges)
        causeway == extract_edges_from_causeway_json(causeway_json)
        report == compare_topologies(parsed.nodes, parsed.edges,
                                     causeway.nodes, causeway.edges)
    IN IF ~report.is_valid
       THEN TopologyMismatch(report)
       ELSE {Returned(report)}

validate_parsed_edges(parsed_edges, causeway_json, raise_on_mismatch) ==
    LET parsed == parsed_topology(parsed_edges)
        causeway == extract_edges_from_causeway_json(causeway_json)
        report == compare_topologies(parsed.nodes, parsed.edges,
                                     causeway.nodes, causeway.edges)
    IN IF ~report.is_valid /\ raise_on_mismatch
       THEN TopologyMismatch(report)
       ELSE {Returned(report)}

\* raise ValueError(message): the check that failed and the names in the text
ValueError(check, names) ==
    [raised |-> "ValueError", value |-> [check |-> check, names |-> names]]

\* faulty variant: an edge whose reverse was seen is refused as a cycle
check_edge_RefusesReverse(node_ids, seen_edges, source, target) ==
    IF source \notin node_ids THEN ValueError("Edge source not in nodes", <<source>>)
    ELSE IF target \notin node_ids THEN ValueError("Edge target not in nodes", <<target>>)
    ELSE IF source = target THEN ValueError("Self-loop detected", <<source>>)
    ELSE IF <<source, target>> \in seen_edges
         THEN ValueError("Duplicate edge", <<source, target>>)
    ELSE IF <<target, source>> \in seen_edges
         THEN ValueError("Cycle detected", <<source, target>>)
    ELSE Returned(TRUE)

\* faulty variant: duplicates are not looked for
check_edge_NoDuplicateTest(node_ids, seen_edges, source, target) ==
    IF source \notin node_ids THEN ValueError("Edge source not in nodes", <<source>>)
    ELSE IF target \notin node_ids THEN ValueError("Edge target not in nodes", <<target>>)
    ELSE IF source = target THEN ValueError("Self-loop detected", <<source>>)
    ELSE Returned(TRUE)

\* faulty variant: the target is tested before the source
check_edge_TargetFirst(node_ids, seen_edges, source, target) ==
    IF target \notin node_ids THEN ValueError("Edge target not in nodes", <<target>>)
    ELSE IF source \notin node_ids THEN ValueError("Edge source not in nodes", <<source>>)
    ELSE IF source = target THEN ValueError("Self-loop detected", <<source>>)
    ELSE IF <<source, target>> \in seen_edges
         THEN ValueError("Duplicate edge", <<source, target>>)
    ELSE Returned(TRUE)

\* the body of quick_validate's loop, up to seen_edges.add
check_edge(node_ids, seen_edges, source, target) ==
    IF source \notin node_ids THEN ValueError("Edge source not in nodes", <<source>>)
    ELSE IF target \notin node_ids THEN ValueError("Edge target not in nodes", <<target>>)
    ELSE IF source = target THEN ValueError("Self-loop detected", <<source>>)
    ELSE IF <<source, target>> \in seen_edges
         THEN ValueError("Duplicate edge", <<source, target>>)
    ELSE Returned(TRUE)

\* for edge in edges: ...; return True
RECURSIVE QuickLoop(_, _, _, _)
QuickLoop(node_ids, edges, i, seen_edges) ==
    IF i > Len(edges) THEN Returned(TRUE)
    ELSE LET checked == check_edge(node_ids, seen_edges, edges[i][1], edges[i][2])
         IN IF checked.raised # "none" THEN checked
            ELSE QuickLoop(node_ids, edges, i + 1, seen_edges \cup {edges[i]})

quick_validate(causeway_json) ==
    QuickLoop(Range(causeway_json.nodes), causeway_json.edges, 1, {})

(***************************************************************************)
(* parse_rde_model.to_causeway_json.  Of a NodeInfo the export's topology  *)
(* reads name and parents, so a list of parsed nodes is modelled as a list *)
(* of <<name, parents>> pairs.                                             *)
(***************************************************************************)
\* for parent_name in node.parents: an edge from parent_name to node.name
EdgesOfNode(node) == [j \in 1..Len(node[2]) |-> <<node[2][j], node[1]>>]

\* for node in nodes: ..., the edges appended so far
RECURSIVE ExportEdges(_, _)
ExportEdges(nodes, i) ==
    IF i > Len(nodes) THEN <<>>
    ELSE EdgesOfNode(nodes[i]) \o ExportEdges(nodes, i + 1)

\* faulty variant: only the first parent of a node gets an edge
to_causeway_json_FirstParentOnly(nodes) ==
    [nodes |-> [i \in 1..Len(nodes) |-> nodes[i][1]],
     edges |-> ExportEdges([i \in 1..Len(nodes) |->
                               <<nodes[i][1],
                                 IF nodes[i][2] = <<>> THEN <<>> ELSE <<Head(nodes[i][2])>>>>],
                           1)]

to_causeway_json(nodes) ==
    [nodes |-> [i \in 1..Len(nodes) |-> nodes[i][1]],
     edges |-> ExportEdges(nodes, 1)]

(***************************************************************************)
(* server/api.py, result and download endpoints.  A resolved path is the   *)
(* list of its components, a component a list of characters; what is at    *)
(* the path (nothing, a file, a directory) is an input of the request.     *)
(***************************************************************************)
\* bounds on the length of a component and on the number of components
MaxNameLen == 2
MaxDepth == 2

PathChars == {"a", "b"}

PathNames == UNION {SeqsOfLen(PathChars, n) : n \in 1..MaxNameLen}

Paths == UNION {SeqsOfLen(PathNames, n) : n \in 0..MaxDepth}

Kinds == {"missing", "file", "dir"}

\* PROJECT_ROOT.resolve(): the directory /a
PROJECT_ROOT == <<<<"a">>>>

\* str(path)
RECURSIVE JoinPath(_)
JoinPath(path) ==
    IF path = <<>> THEN <<>> ELSE <<"/">> \o Head(path) \o JoinPath(Tail(path))

path_str(path) == IF path = <<>> THEN <<"/">> ELSE JoinPath(path)

\* s.startswith(prefix)
startswith(s, prefix) ==
    Len(prefix) <= Len(s) /\ SubSeq(s, 1, Len(prefix)) = prefix

\* the answers: an error dict, or what is served of the path
ErrorAnswer(message) == [status |-> "error", message |-> message, served |-> <<>>]
Served(what, path) == [status |-> "ok", message |-> "", served |-> <<what, path>>]

list_results(output_path, kind) ==
    IF ~startswith(path_str(output_path), path_str(PROJECT_ROOT))
    THEN Returned(ErrorAnswer("Access denied"))
    ELSE IF kind = "missing" THEN Returned(ErrorAnswer("Directory not found"))
    ELSE Returned(Served("files", output_path))

\* iterdir() of a path that is a file raises
list_result_folders(output_path, kind) ==
    IF ~startswith(path_str(output_path), path_str(PROJECT_ROOT))
    THEN Returned(ErrorAnswer("Access denied"))
    ELSE IF kind = "missing" THEN Returned(ErrorAnswer("Directory not found"))
    ELSE IF kind = "file" THEN Raised("NotADirectoryError")
    ELSE Returned(Served("folders", output_path))

download_folder_as_zip(folder_path, kind) ==
    IF ~startswith(path_str(folder_path), path_str(PROJECT_ROOT))
    THEN Returned(ErrorAnswer("Access denied"))
    ELSE IF kind = "missing" THEN Returned(ErrorAnswer("Folder not found"))
    ELSE IF kind # "dir" THEN Returned(ErrorAnswer("Not a folder"))
    ELSE Returned(Served("zip", folder_path))

download_file(file_path, kind) ==
    IF ~startswith(path_str(file_path), path_str(PROJECT_ROOT))
    THEN Returned(ErrorAnswer("Access denied"))
    ELSE IF kind = "missing" THEN Returned(ErrorAnswer("File not found"))
    ELSE IF kind # "file" THEN Returned(ErrorAnswer("Not a file"))
    ELSE Returned(Served("file", file_path))

(***************************************************************************)
(* server/api.py, job registry.  active_jobs is a dict job id -> process;  *)
(* of a process the handlers read poll(): None while it runs, else the     *)
(* return code.                                                            *)
(***************************************************************************)
\* bound on the number of execute requests
MaxJobs == 3

\* f"job_{job_counter}"
JobId(n) == <<"job_", n>>

\* job_id=None
NoJobId == <<>>

\* the ids a status or cancel request may name; job_0 is never handed out
RequestIds == {JobId(n) : n \in 0..MaxJobs}

Running == [exited |-> FALSE, returncode |-> 0]
Exited(code) == [exited |-> TRUE, returncode |-> code]

\* the return codes of a process that has ended by itself
ReturnCodes == {0, 1}

\* del d[k]
DictDelete(d, k) == SelectSeq(d, LAMBDA entry : entry[1] # k)

\* the answers that end a job
TerminalStatuses == {"completed", "failed", "cancelled"}

JobAnswer(status, job_id) == [status |-> status, job_id |-> job_id]

(***************************************************************************)
(* State machine: Init draws the EdgeMap, each action is one call.         *)
(***************************************************************************)
\* active_jobs = {}; job_counter = 0
NoJobs ==
    /\ active_jobs = <<>>
    /\ job_counter = 0
    /\ issued = <<>>
    /\ terminal = <<>>

Init ==
    /\ edge_map \in EdgeMaps
    /\ op = "none"
    /\ args = <<>>
    /\ result = Returned(<<>>)
    /\ frames = <<>>
    /\ visited = {}
    /\ found = <<>>
    /\ steps = 0
    /\ NoJobs

\* a call of a pure function from the caller's idle state: the EdgeMap
\* stays as it is
Call(name, arguments, outcome) ==
    /\ op = "none"
    /\ op' = name
    /\ args' = arguments
    /\ result' = outcome
    /\ UNCHANGED <<edge_map, frames, visited, found, steps>>
    /\ UNCHANGED registry

\* the caller has taken the result and may call again
Return ==
    /\ op # "none"
    /\ frames = <<>>
    /\ op' = "none"
    /\ args' = <<>>
    /\ result' = Returned(<<>>)
    /\ visited' = {}
    /\ found' = <<>>
    /\ steps' = 0
    /\ UNCHANGED <<edge_map, frames>>
    /\ UNCHANGED registry

TopologicalSort ==
    Call("topological_sort", <<>>, topological_sort(edge_map))

WouldCreateCycle ==
    \E a, b \in AllNodes :
        Call("would_create_cycle", <<a, b>>, Returned(would_create_cycle(edge_map, a, b)))

GetAncestors ==
    \E n \in AllNodes : Call("get_ancestors", <<n>>, Returned(get_ancestors(edge_map, n)))

GetDescendants ==
    \E n \in AllNodes : Call("get_descendants", <<n>>, Returned(get_descendants(edge_map, n)))

IsAncestor ==
    \E a, b \in AllNodes :
        Call("is_ancestor", <<a, b>>, Returned(is_ancestor(edge_map, a, b)))

IsDescendant ==
    \E a, b \in AllNodes :
        Call("is_descendant", <<a, b>>, Returned(is_descendant(edge_map, a, b)))

GetRelationship ==
    \E a, b \in AllNodes :
        Call("get_relationship", <<a, b>>, Returned(get_relationship(edge_map, a, b)))

GetAncestorsWithDegree ==
    \E n \in AllNodes :
        Call("get_ancestors_with_degree", <<n>>,
             Returned(get_ancestors_with_degree(edge_map, n)))

GetDescendantsWithDegree ==
    \E n \in AllNodes :
        Call("get_descendants_with_degree", <<n>>,
             Returned(get_descendants_with_degree(edge_map, n)))

(***************************************************************************)
(* get_ancestors / get_descendants step by step: the recursion of traverse *)
(* with its call stack explicit.  A frame is one activation of traverse:   *)
(* its argument current and the index j of the neighbour its for loop      *)
(* looks at next.  visited and found are the set and the output list the   *)
(* activations share; steps counts the loop iterations made so far.        *)
(***************************************************************************)
\* the dict the running traversal reads its neighbours from
WalkAdjacency ==
    IF op = "get_ancestors" THEN edge_map ELSE build_children_map(edge_map)

TopFrame == frames[Len(frames)]

\* the neighbour list of the activation on top of the stack
TopList == DictGet(WalkAdjacency, TopFrame.current, <<>>)

\* visited = set(); ancestors = []; traverse(node_name)
BeginAncestors ==
    /\ op = "none"
    /\ \E n \in AllNodes :
           /\ op' = "get_ancestors"
           /\ args' = <<n>>
           /\ frames' = <<[current |-> n, j |-> 1]>>
    /\ visited' = {}
    /\ found' = <<>>
    /\ steps' = 0
    /\ UNCHANGED <<edge_map, result>>
    /\ UNCHANGED registry

\* children_map = ...; visited = set(); descendants = []; traverse(node_name)
BeginDescendants ==
    /\ op = "none"
    /\ \E n \in AllNodes :
           /\ op' = "get_descendants"
           /\ args' = <<n>>
           /\ frames' = <<[current |-> n, j |-> 1]>>
    /\ visited' = {}
    /\ found' = <<>>
    /\ steps' = 0
    /\ UNCHANGED <<edge_map, result>>
    /\ UNCHANGED registry

\* faulty variant: visited.add is left out
WalkVisit_NoMark ==
    /\ frames # <<>>
    /\ TopFrame.j <= Len(TopList)
    /\ TopList[TopFrame.j] \notin visited
    /\ found' = Append(found, TopList[TopFrame.j])
    /\ frames' = Append([frames EXCEPT ![Len(frames)].j = @ + 1],
                        [current |-> TopList[TopFrame.j], j |-> 1])
    /\ steps' = steps + 1
    /\ UNCHANGED <<edge_map, op, args, result, visited>>
    /\ UNCHANGED registry

\* the loop finds a neighbour not in visited: it is marked, listed, and
\* traverse is called on it
WalkVisit ==
    /\ frames # <<>>
    /\ TopFrame.j <= Len(TopList)
    /\ TopList[TopFrame.j] \notin visited
    /\ visited' = visited \cup {TopList[TopFrame.j]}
    /\ found' = Append(found, TopList[TopFrame.j])
    /\ frames' = Append([frames EXCEPT ![Len(frames)].j = @ + 1],
                        [current |-> TopList[TopFrame.j], j |-> 1])
    /\ steps' = steps + 1
    /\ UNCHANGED <<edge_map, op, args, result>>
    /\ UNCHANGED registry

\* the loop finds a neighbour already in visited and goes on
WalkSkip ==
    /\ frames # <<>>
    /\ TopFrame.j <= Len(TopList)
    /\ TopList[TopFrame.j] \in visited
    /\ frames' = [frames EXCEPT ![Len(frames)].j = @ + 1]
    /\ steps' = steps + 1
    /\ UNCHANGED <<edge_map, op, args, result, visited, found>>
    /\ UNCHANGED registry

\* the loop of the top activation is over: traverse returns; when the
\* outermost activation returns the function returns the list
WalkReturn ==
    /\ frames # <<>>
    /\ TopFrame.j > Len(TopList)
    /\ frames' = SubSeq(frames, 1, Len(frames) - 1)
    /\ result' = IF Len(frames) = 1 THEN Returned(found) ELSE result
    /\ steps' = steps + 1
    /\ UNCHANGED <<edge_map, op, args, visited, found>>
    /\ UNCHANGED registry

GetPath ==
    \E a, b \in AllNodes :
        Call("get_path", <<a, b>>, Returned(get_path(edge_map, a, b)))

\* the cycle check and the evaluation order
NextSort == TopologicalSort \/ WouldCreateCycle \/ Return

SpecSort == Init /\ [][NextSort]_vars

\* ancestry queries
NextTraverse ==
    \/ GetAncestors
    \/ GetDescendants
    \/ IsAncestor
    \/ IsDescendant
    \/ GetRelationship
    \/ Return

SpecTraverse == Init /\ [][NextTraverse]_vars

\* degree-ranked queries
NextDegree == GetAncestorsWithDegree \/ GetDescendantsWithDegree \/ Return

SpecDegree == Init /\ [][NextDegree]_vars

\* the state before a call of topology_validator: its functions take every
\* input as an argument, no EdgeMap is held
InitTopology ==
    /\ edge_map = <<>>
    /\ op = "none"
    /\ args = <<>>
    /\ result = Returned(<<>>)
    /\ frames = <<>>
    /\ visited = {}
    /\ found = <<>>
    /\ steps = 0
    /\ NoJobs

CompareTopologies ==
    /\ op = "none"
    /\ \E nodes_a, nodes_b \in SUBSET GraphIds :
           \E edges_a, edges_b \in SUBSET (GraphIds \X GraphIds) :
               Call("compare_topologies", <<nodes_a, edges_a, nodes_b, edges_b>>,
                    Returned(compare_topologies(nodes_a, edges_a, nodes_b, edges_b)))

ValidateTopology ==
    /\ op = "none"
    /\ \E whyzen_model \in WhyzenModels, causeway_json \in Jsons,
          raise_on_mismatch \in BOOLEAN :
           \E outcome \in validate_topology(whyzen_model, causeway_json, raise_on_mismatch) :
               Call("validate_topology",
                    <<whyzen_model, causeway_json, raise_on_mismatch>>, outcome)

ValidateTopologyFromFiles ==
    /\ op = "none"
    /\ \E json_a, json_b \in Jsons, raise_on_mismatch \in BOOLEAN :
           \E outcome \in validate_topology_from_files(json_a, json_b, raise_on_mismatch) :
               Call("validate_topology_from_files",
                    <<json_a, json_b, raise_on_mismatch>>, outcome)

ValidateParsedEdges ==
    /\ op = "none"
    /\ \E parsed_edges \in ParsedMaps, causeway_json \in Jsons,
          raise_on_mismatch \in BOOLEAN :
           \E outcome \in validate_parsed_edges(parsed_edges, causeway_json,
                                                raise_on_mismatch) :
               Call("validate_parsed_edges",
                    <<parsed_edges, causeway_json, raise_on_mismatch>>, outcome)

QuickValidate ==
    /\ op = "none"
    /\ \E causeway_json \in Jsons :
           Call("quick_validate", <<causeway_json>>, quick_validate(causeway_json))

\* topology comparison and validation
NextTopology ==
    \/ CompareTopologies
    \/ ValidateTopology
    \/ ValidateTopologyFromFiles
    \/ ValidateParsedEdges
    \/ QuickValidate
    \/ Return

SpecTopology == InitTopology /\ [][NextTopology]_vars

BuildChildrenMap ==
    Call("_build_children_map", <<>>, Returned(build_children_map(edge_map)))

\* the children index
NextIndex == BuildChildrenMap \/ Return

SpecIndex == Init /\ [][NextIndex]_vars

\* the parsed nodes are the entries of the EdgeMap: names and parent lists
ToCausewayJson ==
    Call("to_causeway_json", <<edge_map>>, Returned(to_causeway_json(edge_map)))

\* export of parsed nodes
NextExport == ToCausewayJson \/ Return

SpecExport == Init /\ [][NextExport]_vars

\* the server after start-up: no job, no EdgeMap
InitServer ==
    /\ edge_map = <<>>
    /\ op = "none"
    /\ args = <<>>
    /\ result = Returned(<<>>)
    /\ frames = <<>>
    /\ visited = {}
    /\ found = <<>>
    /\ steps = 0
    /\ NoJobs

ListResults ==
    \E path \in Paths, kind \in Kinds :
        Call("list_results", <<path, kind>>, list_results(path, kind))

ListResultFolders ==
    \E path \in Paths, kind \in Kinds :
        Call("list_result_folders", <<path, kind>>, list_result_folders(path, kind))

DownloadFolderAsZip ==
    \E path \in Paths, kind \in Kinds :
        Call("download_folder_as_zip", <<path, kind>>, download_folder_as_zip(path, kind))

DownloadFile ==
    \E path \in Paths, kind \in Kinds :
        Call("download_file", <<path, kind>>, download_file(path, kind))

\* result and download endpoints
NextFiles ==
    \/ ListResults
    \/ ListResultFolders
    \/ DownloadFolderAsZip
    \/ DownloadFile
    \/ Return

SpecFiles == InitServer /\ [][NextFiles]_vars

\* faulty variant: the job id is made from the number of active jobs
ExecuteCommand_CountsActiveJobs ==
    /\ op = "none"
    /\ job_counter < MaxJobs
    /\ job_counter' = job_counter + 1
    /\ op' = "execute_command"
    /\ args' = <<>>
    /\ \E started \in BOOLEAN :
          IF started
          THEN /\ active_jobs' = DictSet(active_jobs, JobId(Len(active_jobs) + 1), Running)
               /\ issued' = Append(issued, JobId(Len(active_jobs) + 1))
               /\ result' = Returned(JobAnswer("started", JobId(Len(active_jobs) + 1)))
          ELSE /\ result' = Returned(JobAnswer("error", NoJobId))
               /\ UNCHANGED <<active_jobs, issued>>
    /\ UNCHANGED <<edge_map, frames, visited, found, steps, terminal>>

\* POST /execute: the counter goes up, the process is started and registered
\* under the new id; when Popen raises, the answer is an error without id
ExecuteCommand ==
    /\ op = "none"
    /\ job_counter < MaxJobs
    /\ job_counter' = job_counter + 1
    /\ op' = "execute_command"
    /\ args' = <<>>
    /\ \E started \in BOOLEAN :
          IF started
          THEN /\ active_jobs' = DictSet(active_jobs, JobId(job_counter + 1), Running)
               /\ issued' = Append(issued, JobId(job_counter + 1))
               /\ result' = Returned(JobAnswer("started", JobId(job_counter + 1)))
          ELSE /\ result' = Returned(JobAnswer("error", NoJobId))
               /\ UNCHANGED <<active_jobs, issued>>
    /\ UNCHANGED <<edge_map, frames, visited, found, steps, terminal>>

\* the process of an active job ends by itself
ProcessExits ==
    /\ op = "none"
    /\ \E i \in 1..Len(active_jobs), code \in ReturnCodes :
          /\ ~active_jobs[i][2].exited
          /\ active_jobs' = [active_jobs EXCEPT ![i] = <<active_jobs[i][1], Exited(code)>>]
    /\ UNCHANGED <<edge_map, op, args, result, frames, visited, found, steps,
                   job_counter, issued, terminal>>

\* GET /jobs/{job_id}/status
GetJobStatus ==
    /\ op = "none"
    /\ \E job_id \in RequestIds :
          /\ op' = "get_job_status"
          /\ args' = <<job_id>>
          /\ IF ~HasKey(active_jobs, job_id)
             THEN /\ result' = Returned(JobAnswer("not_found", job_id))
                  /\ UNCHANGED <<active_jobs, terminal>>
             ELSE LET process == DictGet(active_jobs, job_id, Running)
                  IN IF ~process.exited
                     THEN /\ result' = Returned(JobAnswer("running", job_id))
                          /\ UNCHANGED <<active_jobs, terminal>>
                     ELSE /\ active_jobs' = DictDelete(active_jobs, job_id)
                          /\ result' = Returned(JobAnswer(IF process.returncode = 0
                                                          THEN "completed" ELSE "failed",
                                                          job_id))
                          /\ terminal' = Append(terminal, job_id)
    /\ UNCHANGED <<edge_map, frames, visited, found, steps, job_counter, issued>>

\* POST /jobs/{job_id}/cancel: terminate() and removal, without poll()
CancelJob ==
    /\ op = "none"
    /\ \E job_id \in RequestIds :
          /\ op' = "cancel_job"
          /\ args' = <<job_id>>
          /\ IF ~HasKey(active_jobs, job_id)
             THEN /\ result' = Returned(JobAnswer("not_found", job_id))
                  /\ UNCHANGED <<active_jobs, terminal>>
             ELSE /\ active_jobs' = DictDelete(active_jobs, job_id)
                  /\ result' = Returned(JobAnswer("cancelled", job_id))
                  /\ terminal' = Append(terminal, job_id)
    /\ UNCHANGED <<edge_map, frames, visited, found, steps, job_counter, issued>>

\* the job registry
NextJobs ==
    \/ ExecuteCommand
    \/ ProcessExits
    \/ GetJobStatus
    \/ CancelJob
    \/ Return

SpecJobs == InitServer /\ [][NextJobs]_vars

\* path search
NextPath == GetPath \/ Return

SpecPath == Init /\ [][NextPath]_vars

\* EdgeMaps of the specification that offers every query
SmallEdgeMaps == EdgeMapsFrom({}, MaxEdges - 1) \cup Samples

InitQueries ==
    /\ edge_map \in SmallEdgeMaps
    /\ op = "none"
    /\ args = <<>>
    /\ result = Returned(<<>>)
    /\ frames = <<>>
    /\ visited = {}
    /\ found = <<>>
    /\ steps = 0
    /\ NoJobs

GetParents ==
    \E n \in AllNodes : Call("get_parents", <<n>>, get_parents(edge_map, n))

GetChildren ==
    \E n \in AllNodes : Call("get_children", <<n>>, get_children(edge_map, n))

GetRoots == Call("get_roots", <<>>, Returned(get_roots(edge_map)))

GetLeaves == Call("get_leaves", <<>>, Returned(get_leaves(edge_map)))

\* the caller appends to the list get_parents or get_children handed out; a
\* list that is stored in the EdgeMap changes there too
CallerAppends ==
    /\ op \in {"get_parents", "get_children"}
    /\ result.raised = "none"
    /\ \E x \in Nodes :
          /\ op' = "list.append"
          /\ args' = <<op, args[1], x>>
          /\ result' = Returned([result.value EXCEPT !.items = Append(@, x)])
          /\ edge_map' = IF HasKey(edge_map, result.value.id)
                         THEN DictSet(edge_map, result.value.id,
                                      Append(DictGet(edge_map, result.value.id, <<>>), x))
                         ELSE edge_map
    /\ UNCHANGED <<frames, visited, found, steps>>
    /\ UNCHANGED registry

\* every query of the graph utilities
NextQueries ==
    \/ GetParents
    \/ GetChildren
    \/ GetAncestors
    \/ GetDescendants
    \/ GetAncestorsWithDegree
    \/ GetDescendantsWithDegree
    \/ IsAncestor
    \/ IsDescendant
    \/ GetRelationship
    \/ WouldCreateCycle
    \/ GetRoots
    \/ GetLeaves
    \/ TopologicalSort
    \/ GetPath
    \/ CallerAppends
    \/ Return

SpecQueries == InitQueries /\ [][NextQueries]_vars

\* the depth-first traversals, one loop iteration at a time
NextWalk ==
    \/ BeginAncestors
    \/ BeginDescendants
    \/ WalkVisit
    \/ WalkSkip
    \/ WalkReturn
    \/ Return

SpecWalk == Init /\ [][NextWalk]_vars

(***************************************************************************)
(* Vocabulary of the properties: the graph an EdgeMap denotes, as sets.    *)
(***************************************************************************)
KeySet(em) == Range(DictKeys(em))

\* the direct parents of n; a node without an entry has none
ParentSet(em, n) == Range(DictGet(em, n, <<>>))

\* every identifier the EdgeMap mentions
Mentioned(em) == KeySet(em) \cup UNION {ParentSet(em, k) : k \in KeySet(em)}

\* the direct children of n
ChildSet(em, n) == {k \in KeySet(em) : n \in ParentSet(em, k)}

\* the nodes reachable from n by one or more parent edges
RECURSIVE UpClosure(_, _)
UpClosure(em, S) ==
    LET T == S \cup UNION {ParentSet(em, x) : x \in S}
    IN IF T = S THEN S ELSE UpClosure(em, T)

AncestorSet(em, n) == UpClosure(em, ParentSet(em, n))

\* the nodes reachable from n by one or more child edges
DescendantSet(em, n) == {m \in Mentioned(em) : n \in AncestorSet(em, m)}

\* a directed cycle: some node reaches itself (a self-parent included)
HasCycle(em) == \E n \in KeySet(em) : n \in AncestorSet(em, n)

\* position of x in a list that holds it
IndexOf(lst, x) == CHOOSE i \in 1..Len(lst) : lst[i] = x

\* lst holds every element of S exactly once and nothing else
IsListingOf(lst, S) == NoDup(lst) /\ Range(lst) = S

\* every parent of a listed node that is a key comes before the node
ParentsFirst(em, lst) ==
    \A i \in 1..Len(lst) : \A p \in ParentSet(em, lst[i]) \cap KeySet(em) :
        \E j \in 1..(i - 1) : lst[j] = p

\* the EdgeMap with a added to the parent list of b
WithParent(em, a, b) == DictSet(em, b, Append(DictGet(em, b, <<>>), a))

(***************************************************************************)
(* Properties of topological_sort and would_create_cycle.                  *)
(***************************************************************************)
\* C1: on every EdgeMap without a directed cycle (parents that are not keys
\* included) topological_sort returns every key exactly once, each parent
\* before its node, and does not raise the cycle error.
C1_SortsEveryAcyclicEdgeMap ==
    (op = "topological_sort" /\ ~HasCycle(edge_map)) =>
        /\ result.raised = "none"
        /\ IsListingOf(result.value, KeySet(edge_map))
        /\ ParentsFirst(edge_map, result.value)

\* C1, the part the code keeps: when every parent is a key
C1_HoldsWhenParentsAreKeys ==
    (op = "topological_sort" /\ ~HasCycle(edge_map)
        /\ Mentioned(edge_map) = KeySet(edge_map)) =>
        /\ result.raised = "none"
        /\ IsListingOf(result.value, KeySet(edge_map))
        /\ ParentsFirst(edge_map, result.value)

\* C2: topological_sort returns a list with each key exactly once or raises
\* the cycle error, never a shorter list, and raises on every EdgeMap with
\* a directed cycle.
C2_NeverTruncated ==
    op = "topological_sort" =>
        /\ result.raised = "none" => IsListingOf(result.value, KeySet(edge_map))
        /\ result.raised \in {"none", "ValueError"}
        /\ HasCycle(edge_map) => result.raised = "ValueError"

C2_Witness ==
    /\ op = "topological_sort"
    /\ HasCycle(edge_map)
    /\ \E k \in KeySet(edge_map) : ParentSet(edge_map, k) = {}
    /\ result.raised = "ValueError"

\* C3: on an acyclic EdgeMap whose parents are all keys, for keys a and b,
\* would_create_cycle(a, b) is true exactly when topological_sort raises on
\* the EdgeMap with a added to b's parents.
C3_CycleCheckAgreesWithSort ==
    (op = "would_create_cycle" /\ ~HasCycle(edge_map)
        /\ Mentioned(edge_map) = KeySet(edge_map)
        /\ args[1] \in KeySet(edge_map) /\ args[2] \in KeySet(edge_map)) =>
        (result.value <=>
            topological_sort(WithParent(edge_map, args[1], args[2])).raised = "ValueError")

C3_Witness ==
    /\ op = "would_create_cycle"
    /\ ~HasCycle(edge_map)
    /\ Mentioned(edge_map) = KeySet(edge_map)
    /\ args[1] \in KeySet(edge_map) /\ args[2] \in KeySet(edge_map)
    /\ args[1] # args[2]
    /\ args[2] \notin ParentSet(edge_map, args[1])
    /\ result.value = TRUE

(***************************************************************************)
(* Vocabulary of the traversal properties, over an adjacency dict adj:     *)
(* the EdgeMap itself for parent edges, the children index for child edges.*)
(***************************************************************************)
Neighbours(adj, x) == DictGet(adj, x, <<>>)

\* the nodes reached from n by exactly k edges of adj
RECURSIVE Layer(_, _, _)
Layer(adj, n, k) ==
    IF k = 0 THEN {n}
    ELSE UNION {Range(Neighbours(adj, x)) : x \in Layer(adj, n, k - 1)}

\* length of the shortest non-empty path from n to m, for m reachable from n
Distance(adj, n, m) ==
    CHOOSE k \in 1..(Len(adj) + 1) :
        /\ m \in Layer(adj, n, k)
        /\ \A h \in 1..(k - 1) : m \notin Layer(adj, n, h)

\* the first element of lst that is not in S
FirstOutside(lst, S) ==
    lst[CHOOSE i \in 1..Len(lst) :
            lst[i] \notin S /\ \A h \in 1..(i - 1) : lst[h] \in S]

\* r is the first-visit order of a pre-order depth-first traversal from n:
\* each element is the first not-yet-listed neighbour of the most recently
\* listed node that still has one (n itself counting as listed first)
IsPreOrder(adj, n, r) ==
    LET at(j) == IF j = 0 THEN n ELSE r[j]
        before(i) == {r[h] : h \in 1..(i - 1)}
        open(i) == {j \in 0..(i - 1) :
                        \E q \in Range(Neighbours(adj, at(j))) : q \notin before(i)}
        latest(i) == CHOOSE j \in open(i) : \A h \in open(i) : h <= j
    IN /\ \A i \in 1..Len(r) :
              /\ open(i) # {}
              /\ r[i] = FirstOutside(Neighbours(adj, at(latest(i))), before(i))
       /\ open(Len(r) + 1) = {}

\* every element of r that is not a neighbour of n comes after an element it
\* is a neighbour of
DiscovererFirst(adj, n, r) ==
    \A i \in 1..Len(r) :
        \/ InList(r[i], Neighbours(adj, n))
        \/ \E h \in 1..(i - 1) : InList(r[i], Neighbours(adj, r[h]))

\* no element of r is farther from n than an element after it
CloserFirst(adj, n, r) ==
    \A i, j \in 1..Len(r) :
        i < j => Distance(adj, n, r[i]) <= Distance(adj, n, r[j])

(***************************************************************************)
(* Properties of get_ancestors and get_descendants.                        *)
(***************************************************************************)
\* C4: irreflexivity: on every EdgeMap, cyclic ones included, n occurs
\* neither in get_ancestors(n) nor in get_descendants(n).
C4_Irreflexive ==
    op \in {"get_ancestors", "get_descendants"} => ~InList(args[1], result.value)

\* C4, the part the code keeps: on EdgeMaps without a directed cycle
C4_IrreflexiveWhenAcyclic ==
    (op \in {"get_ancestors", "get_descendants"} /\ ~HasCycle(edge_map)) =>
        ~InList(args[1], result.value)

\* C5: get_ancestors(n) lists exactly the nodes reachable from n by one or
\* more parent edges, in the first-visit order of a pre-order depth-first
\* traversal that follows each parent list in its stored order;
\* get_descendants(n) does the same over the children index.
C5_PreOrderOfReachable ==
    /\ op = "get_ancestors" =>
           /\ IsListingOf(result.value, AncestorSet(edge_map, args[1]))
           /\ IsPreOrder(edge_map, args[1], result.value)
    /\ op = "get_descendants" =>
           /\ IsListingOf(result.value, DescendantSet(edge_map, args[1]))
           /\ IsPreOrder(build_children_map(edge_map), args[1], result.value)

\* a grandparent is listed before a second parent
C5_Witness ==
    /\ op = "get_ancestors"
    /\ Len(result.value) >= 3
    /\ ~InList(result.value[2], Neighbours(edge_map, args[1]))
    /\ InList(result.value[3], Neighbours(edge_map, args[1]))

\* C6: in get_ancestors(n) a node at a smaller shortest distance from n
\* never comes after a node at a larger distance (likewise in
\* get_descendants), and for {A: [], B: [A], C: [A], D: [B, C]}
\* get_ancestors(D) is [B, C, A].
C6_CloserCausesFirst ==
    /\ op = "get_ancestors" => CloserFirst(edge_map, args[1], result.value)
    /\ op = "get_descendants" =>
           CloserFirst(build_children_map(edge_map), args[1], result.value)
    /\ (op = "get_ancestors" /\ edge_map = Diamond /\ args = <<"D">>) =>
           result.value = <<"B", "C", "A">>

\* C6 as amended: in get_ancestors(n) the first node is a direct parent of n
\* and every node that is not a direct parent of n comes after a node of
\* which it is a direct parent (likewise in get_descendants over child
\* edges); for the diamond get_ancestors(D) is [B, A, C].
C6_DiscovererFirst ==
    /\ op = "get_ancestors" => DiscovererFirst(edge_map, args[1], result.value)
    /\ op = "get_descendants" =>
           DiscovererFirst(build_children_map(edge_map), args[1], result.value)
    /\ (op = "get_ancestors" /\ edge_map = Diamond /\ args = <<"D">>) =>
           result.value = <<"B", "A", "C">>

C6_Witness ==
    /\ op = "get_ancestors"
    /\ edge_map = Diamond
    /\ args = <<"D">>
    /\ result.value = <<"B", "A", "C">>

(***************************************************************************)
(* Properties of get_relationship and is_ancestor.                         *)
(***************************************************************************)
\* the first category that matches, in the fixed order
Classify(em, a, b) ==
    IF a = b THEN "self"
    ELSE IF a \in ParentSet(em, b) THEN "parent"
    ELSE IF b \in ParentSet(em, a) THEN "child"
    ELSE IF a \in AncestorSet(em, b) THEN "ancestor"
    ELSE IF b \in AncestorSet(em, a) THEN "descendant"
    ELSE "unconnected"

\* C9: get_relationship(a, b) is the first category that matches in the
\* order self, parent, child, ancestor, descendant, unconnected; so
\* 'ancestor' or 'descendant' is returned only when neither node is a direct
\* parent of the other, and 'unconnected' only when no directed path joins
\* them in either direction.
C9_FirstMatchingCategory ==
    op = "get_relationship" =>
        LET a == args[1]
            b == args[2]
        IN /\ result.value = Classify(edge_map, a, b)
           /\ result.value \in {"ancestor", "descendant"} =>
                  a \notin ParentSet(edge_map, b) /\ b \notin ParentSet(edge_map, a)
           /\ result.value = "unconnected" =>
                  a \notin AncestorSet(edge_map, b) /\ b \notin AncestorSet(edge_map, a)

\* a is both a direct parent and a transitive cause of b on a cyclic EdgeMap
C9_Witness ==
    /\ op = "get_relationship"
    /\ HasCycle(edge_map)
    /\ args[1] \in AncestorSet(edge_map, args[2])
    /\ args[2] \in AncestorSet(edge_map, args[1])
    /\ args[2] \in ParentSet(edge_map, args[1])
    /\ args[1] \notin ParentSet(edge_map, args[2])
    /\ result.value = "child"

\* C10: for every EdgeMap and all nodes a, b, is_ancestor(a, b) is true
\* exactly when b occurs in get_descendants(a).
C10_IsAncestorIffInDescendants ==
    op = "is_ancestor" =>
        (result.value <=> InList(args[2], get_descendants(edge_map, args[1])))

\* C10, the part the code keeps: for distinct nodes
C10_HoldsForDistinctNodes ==
    (op = "is_ancestor" /\ args[1] # args[2]) =>
        (result.value <=> InList(args[2], get_descendants(edge_map, args[1])))

(***************************************************************************)
(* Properties of the degree-ranked queries.                                *)
(***************************************************************************)
Reachable(adj, n) == UNION {Layer(adj, n, k) : k \in 1..(Len(adj) + 1)}

\* r, a list of <<name, degree>>, is in breadth-first discovery order: the
\* entries are ordered by the place of the entry they were first found from
\* (n itself counting as place 0) and then by their place in that entry's
\* neighbour list
TiesInDiscoveryOrder(adj, n, r) ==
    LET at(j) == IF j = 0 THEN n ELSE r[j][1]
        disc(x) == CHOOSE j \in 0..Len(r) :
                       /\ InList(x, Neighbours(adj, at(j)))
                       /\ \A h \in 0..(j - 1) : ~InList(x, Neighbours(adj, at(h)))
        pos(x) == IndexOf(Neighbours(adj, at(disc(x))), x)
    IN \A i, j \in 1..Len(r) :
           (i < j /\ r[i][2] = r[j][2]) =>
               \/ disc(r[i][1]) < disc(r[j][1])
               \/ disc(r[i][1]) = disc(r[j][1]) /\ pos(r[i][1]) < pos(r[j][1])

RankedByDegree(adj, n, r) ==
    /\ NoDup([i \in 1..Len(r) |-> r[i][1]])
    /\ \A i \in 1..Len(r) :
           /\ r[i][1] \in Reachable(adj, n)
           /\ r[i][2] = Distance(adj, n, r[i][1])
    /\ \A i, j \in 1..Len(r) : i < j => r[i][2] <= r[j][2]
    /\ TiesInDiscoveryOrder(adj, n, r)

\* C8: get_ancestors_with_degree(n) lists each reported node exactly once
\* with the length of the shortest non-empty parent-edge path from n to it,
\* sorted by ascending degree, ties in breadth-first discovery order;
\* get_descendants_with_degree(n) does the same over child edges.
C8_RankedByShortestDistance ==
    /\ op = "get_ancestors_with_degree" =>
           RankedByDegree(edge_map, args[1], result.value)
    /\ op = "get_descendants_with_degree" =>
           RankedByDegree(build_children_map(edge_map), args[1], result.value)

\* a node with a short and a long path to it, and a tie at degree 1
C8_Witness ==
    /\ op = "get_ancestors_with_degree"
    /\ Len(result.value) >= 3
    /\ result.value[1][2] = 1
    /\ result.value[2][2] = 1
    /\ \E i \in 1..Len(result.value) :
           /\ result.value[i][2] = 2
           /\ result.value[i][1] \in Layer(edge_map, args[1], 3)

(***************************************************************************)
(* Termination of the depth-first traversals.                              *)
(***************************************************************************)
\* the longest neighbour list of a dict
MaxFan(adj) ==
    LET lens == {Len(adj[i][2]) : i \in 1..Len(adj)} \cup {0}
    IN CHOOSE m \in lens : \A l \in lens : l <= m

\* loop iterations the activations on the stack still have to make, the
\* final test of each loop included
RECURSIVE PendingWork(_, _)
PendingWork(adj, fs) ==
    IF fs = <<>> THEN 0
    ELSE (Len(Neighbours(adj, Head(fs).current)) - Head(fs).j + 2)
             + PendingWork(adj, Tail(fs))

\* a bound on the steps a running traversal has left
WalkVariant ==
    Cardinality(Mentioned(edge_map) \ visited) * (MaxFan(WalkAdjacency) + 2)
        + PendingWork(WalkAdjacency, frames)

\* WalkVariant when the traversal begins
WalkBudget ==
    Cardinality(Mentioned(edge_map)) * (MaxFan(WalkAdjacency) + 2)
        + Len(Neighbours(WalkAdjacency, args[1])) + 1

WalkDone == op \in {"get_ancestors", "get_descendants"} /\ frames = <<>>

\* C7: get_ancestors and get_descendants terminate on every EdgeMap,
\* directed cycles and self-parents included, without raising, and their
\* result holds no node twice: the steps made and the steps left never add
\* up to more than the budget the traversal began with, and the list that
\* is returned has no repeats.
C7_TraversalTerminates ==
    op \in {"get_ancestors", "get_descendants"} =>
        /\ WalkVariant >= 0
        /\ steps + WalkVariant <= WalkBudget
        /\ frames = <<>> => (result.raised = "none" /\ NoDup(result.value))

\* a traversal that went round a cycle has returned
C7_Witness ==
    /\ WalkDone
    /\ HasCycle(edge_map)
    /\ InList(args[1], result.value)
    /\ Len(result.value) >= 2

\* the step-by-step traversal returns what the recursive operators return
WalkMatchesRecursion ==
    WalkDone =>
        result.value = IF op = "get_ancestors"
                       THEN get_ancestors(edge_map, args[1])
                       ELSE get_descendants(edge_map, args[1])

(***************************************************************************)
(* Properties of would_create_cycle and get_path.                          *)
(***************************************************************************)
\* p is a list of nodes in which every step goes from a parent to its child
IsDirectedPath(em, p) ==
    \A i \in 1..(Len(p) - 1) : p[i] \in ParentSet(em, p[i + 1])

\* the nodes reached from n by at most k child edges
RECURSIVE DownWithin(_, _, _)
DownWithin(em, n, k) ==
    IF k = 0 THEN {n}
    ELSE LET near == DownWithin(em, n, k - 1)
         IN near \cup UNION {ChildSet(em, x) : x \in near}

\* C11: would_create_cycle(source, target) ends with a boolean on every
\* EdgeMap, cyclic ones included, and it is true exactly when source equals
\* target or source is reached from target along child edges; on the diamond
\* it is true for (D, A) and false for (A, D).
C11_TrueIffSourceBelowTarget ==
    op = "would_create_cycle" =>
        /\ result.raised = "none"
        /\ result.value \in BOOLEAN
        /\ result.value <=>
              (args[1] = args[2] \/ args[1] \in DescendantSet(edge_map, args[2]))
        /\ (edge_map = Diamond /\ args = <<"D", "A">>) => result.value = TRUE
        /\ (edge_map = Diamond /\ args = <<"A", "D">>) => result.value = FALSE

C11_Witness ==
    /\ op = "would_create_cycle"
    /\ HasCycle(edge_map)
    /\ args[1] # args[2]
    /\ args[1] \notin ChildSet(edge_map, args[2])
    /\ result.value = TRUE

\* C12: a path returned by get_path(source, target) starts with source, ends
\* with target, goes along edges (each node is in the parent list of the
\* next one), repeats no node, and no directed path from source to target
\* has fewer edges.
C12_ShortestDirectedPath ==
    (op = "get_path" /\ result.value.found) =>
        LET path == result.value.path
        IN /\ Len(path) >= 1
           /\ path[1] = args[1]
           /\ path[Len(path)] = args[2]
           /\ IsDirectedPath(edge_map, path)
           /\ NoDup(path)
           /\ Len(path) >= 2 => args[2] \notin DownWithin(edge_map, args[1], Len(path) - 2)

C12_Witness ==
    /\ op = "get_path"
    /\ result.value.found
    /\ Len(result.value.path) = 3
    /\ HasCycle(edge_map)
    /\ \E p \in AllNodes \ {result.value.path[2]} :
          /\ p \in ChildSet(edge_map, args[1])
          /\ args[2] \in DescendantSet(edge_map, p)

\* C13: get_path never raises, on cyclic EdgeMaps and unknown nodes too; it
\* returns None exactly when source differs from target and target is not
\* reached from source along child edges, and [source] when they are equal.
C13_NoneIffUnreachable ==
    op = "get_path" =>
        /\ result.raised = "none"
        /\ ~result.value.found <=>
              (args[1] # args[2] /\ args[2] \notin DescendantSet(edge_map, args[1]))
        /\ args[1] = args[2] => result.value = SomePath(<<args[1]>>)

C13_Witness ==
    /\ op = "get_path"
    /\ result.value = NoPath
    /\ HasCycle(edge_map)
    /\ args[1] \in DescendantSet(edge_map, args[2])

(***************************************************************************)
(* Properties of topology_validator.                                       *)
(***************************************************************************)
Wrappers == {"validate_topology", "validate_topology_from_files", "validate_parsed_edges"}

\* the two (nodes, edges) topologies a wrapper call compares, from its arguments
SideA ==
    CASE op = "validate_topology" -> extract_edges_from_whyzen_model(args[1])
      [] op = "validate_topology_from_files" -> extract_edges_from_causeway_json(args[1])
      [] op = "validate_parsed_edges" -> parsed_topology(args[1])

SideB == extract_edges_from_causeway_json(args[2])

\* the report compare_topologies gives for the wrapper call's arguments
ComparedReport == compare_topologies(SideA.nodes, SideA.edges, SideB.nodes, SideB.edges)

\* C14: compare_topologies reports missing_nodes_in_a = nodesB \ nodesA,
\* missing_nodes_in_b = nodesA \ nodesB, missing_edges_in_a = edgesB \ edgesA
\* and missing_edges_in_b = edgesA \ edgesB; is_valid holds exactly when all
\* four are empty, that is when the node sets and the edge sets are equal,
\* so a graph compared with itself is valid and graphs with equal counts
\* but different members are not.
C14_ReportIsSetDifference ==
    op = "compare_topologies" =>
        LET nodes_a == args[1]
            edges_a == args[2]
            nodes_b == args[3]
            edges_b == args[4]
            report == result.value
        IN /\ result.raised = "none"
           /\ report.missing_nodes_in_a = {n \in nodes_b : n \notin nodes_a}
           /\ report.missing_nodes_in_b = {n \in nodes_a : n \notin nodes_b}
           /\ report.missing_edges_in_a = {e \in edges_b : e \notin edges_a}
           /\ report.missing_edges_in_b = {e \in edges_a : e \notin edges_b}
           /\ report.is_valid <=>
                 /\ report.missing_nodes_in_a = {} /\ report.missing_nodes_in_b = {}
                 /\ report.missing_edges_in_a = {} /\ report.missing_edges_in_b = {}
           /\ report.is_valid <=> (nodes_a = nodes_b /\ edges_a = edges_b)

C14_Witness ==
    /\ op = "compare_topologies"
    /\ Cardinality(args[1]) = Cardinality(args[3])
    /\ Cardinality(args[2]) = Cardinality(args[4])
    /\ args[1] = args[3]
    /\ args[2] # args[4]
    /\ result.value.node_count_match /\ result.value.edge_count_match
    /\ ~result.value.is_valid

\* C15: validate_topology, validate_topology_from_files and
\* validate_parsed_edges fail with TopologyMismatch exactly when the report
\* has is_valid false and raise_on_mismatch is true; in every other case,
\* an invalid report with raise_on_mismatch false included, they return the
\* report of compare_topologies unchanged.
C15_RaisesIffInvalidAndAsked ==
    op \in Wrappers =>
        /\ result.raised \in {"none", "TopologyMismatch"}
        /\ result.raised = "TopologyMismatch" <=> (~ComparedReport.is_valid /\ args[3])
        /\ result.raised = "none" => result.value = ComparedReport

C15_Witness ==
    /\ op = "validate_parsed_edges"
    /\ args[3] = FALSE
    /\ result.raised = "none"
    /\ ~result.value.is_valid
    /\ result.value.missing_edges_in_b # {}

\* C16: when a wrapper fails with TopologyMismatch the error carries the
\* full report: all four difference sets, with every missing node and every
\* missing edge, can be read back from the error.
C16_ErrorCarriesFullReport ==
    (op \in Wrappers /\ result.raised = "TopologyMismatch") =>
        /\ result.value.nodes_missing_in_a = ComparedReport.missing_nodes_in_a
        /\ result.value.nodes_missing_in_b = ComparedReport.missing_nodes_in_b
        /\ result.value.edges_missing_in_a = ComparedReport.missing_edges_in_a
        /\ result.value.edges_missing_in_b = ComparedReport.missing_edges_in_b

\* C16, the part the code keeps: the missing nodes are all in the error's
\* text, and so are the missing edges while neither side misses more than
\* ShownEdges of them
C16_FullWhenFewEdgesMissing ==
    (op \in Wrappers /\ result.raised = "TopologyMismatch") =>
        /\ result.value.nodes_missing_in_a = ComparedReport.missing_nodes_in_a
        /\ result.value.nodes_missing_in_b = ComparedReport.missing_nodes_in_b
        /\ Cardinality(ComparedReport.missing_edges_in_a) <= ShownEdges =>
              result.value.edges_missing_in_a = ComparedReport.missing_edges_in_a
        /\ Cardinality(ComparedReport.missing_edges_in_b) <= ShownEdges =>
              result.value.edges_missing_in_b = ComparedReport.missing_edges_in_b

\* the checks edge i of a document violates
DanglingSource(json, i) == json.edges[i][1] \notin Range(json.nodes)
DanglingTarget(json, i) == json.edges[i][2] \notin Range(json.nodes)
SelfLoop(json, i) == json.edges[i][1] = json.edges[i][2]
DuplicateEdge(json, i) == \E j \in 1..(i - 1) : json.edges[j] = json.edges[i]

Violates(json, i) ==
    DanglingSource(json, i) \/ DanglingTarget(json, i) \/ SelfLoop(json, i)
        \/ DuplicateEdge(json, i)

\* the error for edge i: the first violated check, with the names of its text
ErrorFor(json, i) ==
    LET source == json.edges[i][1]
        target == json.edges[i][2]
    IN CASE DanglingSource(json, i) ->
               [check |-> "Edge source not in nodes", names |-> <<source>>]
         [] ~DanglingSource(json, i) /\ DanglingTarget(json, i) ->
               [check |-> "Edge target not in nodes", names |-> <<target>>]
         [] ~DanglingSource(json, i) /\ ~DanglingTarget(json, i) /\ SelfLoop(json, i) ->
               [check |-> "Self-loop detected", names |-> <<source>>]
         [] OTHER -> [check |-> "Duplicate edge", names |-> <<source, target>>]

\* C17: quick_validate returns True exactly when every edge has its source
\* and its target among the node ids, no edge is a self-loop and no
\* (source, target) pair occurs twice; it raises its validation error as
\* soon as one of these is violated and never for a graph without violation.
C17_TrueIffConsistent ==
    op = "quick_validate" =>
        LET json == args[1]
            consistent == \A i \in 1..Len(json.edges) : ~Violates(json, i)
        IN /\ result.raised \in {"none", "ValueError"}
           /\ result = Returned(TRUE) <=> consistent
           /\ result.raised = "ValueError" <=> ~consistent

C17_Witness ==
    /\ op = "quick_validate"
    /\ result.raised = "ValueError"
    /\ result.value.check = "Duplicate edge"
    /\ Range(args[1].edges) \subseteq Range(args[1].nodes) \X Range(args[1].nodes)

\* C18: quick_validate fails fast in input order: its error is the one of
\* the earliest edge that violates a check, and names the first check that
\* edge violates in the order dangling source, dangling target, self-loop,
\* duplicate; for nodes [P, Q] and edges [(P, P)] it is the self-loop.
C18_EarliestEdgeFirstCheck ==
    op = "quick_validate" =>
        LET json == args[1]
            bad == {i \in 1..Len(json.edges) : Violates(json, i)}
        IN /\ bad # {} =>
                LET first == CHOOSE i \in bad : \A j \in bad : i <= j
                IN result.value = ErrorFor(json, first)
           /\ json = SelfLoopJson => result.value.check = "Self-loop detected"

C18_Witness ==
    /\ op = "quick_validate"
    /\ Len(args[1].edges) = 2
    /\ Violates(args[1], 1) /\ Violates(args[1], 2)
    /\ DanglingSource(args[1], 1) /\ DanglingTarget(args[1], 1) /\ SelfLoop(args[1], 1)
    /\ ErrorFor(args[1], 2) # ErrorFor(args[1], 1)
    /\ result.value.check = "Edge source not in nodes"

(***************************************************************************)
(* Unknown nodes and the frame of the queries.                             *)
(***************************************************************************)
\* a node that is neither a key nor in a parent list
Absent(n) == n \notin Mentioned(edge_map)

\* C19: a query about a node absent from the EdgeMap never raises and gives
\* the empty answer: get_parents, get_children, get_ancestors,
\* get_descendants and the degree-ranked queries return the empty list,
\* is_ancestor and is_descendant false, get_relationship with another node
\* 'unconnected', get_path to or from another node None, would_create_cycle
\* with another node false.
C19_UnknownNodeGivesEmptyAnswer ==
    /\ (op \in {"get_parents", "get_children"} /\ Absent(args[1])) =>
          (result.raised = "none" /\ result.value.items = <<>>)
    /\ (op \in {"get_ancestors", "get_descendants", "get_ancestors_with_degree",
                "get_descendants_with_degree"} /\ Absent(args[1])) =>
          result = Returned(<<>>)
    /\ (op \in {"is_ancestor", "is_descendant"} /\ (Absent(args[1]) \/ Absent(args[2]))) =>
          result = Returned(FALSE)
    /\ (op \in {"get_relationship", "get_path", "would_create_cycle"}
           /\ args[1] # args[2] /\ (Absent(args[1]) \/ Absent(args[2]))) =>
          result = Returned(CASE op = "get_relationship" -> "unconnected"
                              [] op = "get_path" -> NoPath
                              [] op = "would_create_cycle" -> FALSE)

C19_Witness ==
    /\ op = "get_parents"
    /\ Absent(args[1])
    /\ HasCycle(edge_map)
    /\ result.value.items = <<>>

\* the call whose returned list the caller changed, made again
CalledAgain ==
    IF args[1] = "get_parents" THEN get_parents(edge_map, args[2])
    ELSE get_children(edge_map, args[2])

\* C20: no query changes the EdgeMap: through every sequence of calls of
\* get_parents, get_children, get_ancestors, get_descendants, the
\* degree-ranked queries, get_relationship, would_create_cycle, get_roots,
\* get_leaves, topological_sort and get_path the EdgeMap keeps its value,
\* also when the caller changes a list get_parents or get_children returned,
\* so that the same call made again returns what it returned before.
C20_EdgeMapNeverChanges ==
    /\ [][edge_map' = edge_map]_vars
    /\ [](op = "list.append" =>
            Append(CalledAgain.value.items, args[3]) = result.value.items)

C20_Witness ==
    /\ op = "list.append"
    /\ args[1] = "get_parents"
    /\ DictGet(edge_map, args[2], <<>>) # <<>>
    /\ result.value.items = Append(DictGet(edge_map, args[2], <<>>), args[3])

(***************************************************************************)
(* Properties of get_roots, get_leaves and _build_children_map.            *)
(***************************************************************************)
\* how often x occurs in lst
Count(lst, x) == Cardinality({i \in 1..Len(lst) : lst[i] = x})

\* lst follows the order of the keys of em
InKeyOrder(em, lst) ==
    \A i, j \in 1..Len(lst) :
        i < j => IndexOf(DictKeys(em), lst[i]) <= IndexOf(DictKeys(em), lst[j])

\* C21: get_roots returns exactly the keys whose parent list is empty, in
\* key order, and get_leaves exactly the keys that occur in no parent list;
\* a parent that is not a key is in neither list.  For the diamond the
\* roots are [A] and the leaves are [D].
C21_RootsAndLeaves ==
    /\ op = "get_roots" =>
          /\ IsListingOf(result.value, {k \in KeySet(edge_map) : DictGet(edge_map, k, <<>>) = <<>>})
          /\ InKeyOrder(edge_map, result.value)
          /\ edge_map = Diamond => result.value = <<"A">>
    /\ op = "get_leaves" =>
          /\ IsListingOf(result.value,
                         {k \in KeySet(edge_map) :
                             \A c \in KeySet(edge_map) : k \notin ParentSet(edge_map, c)})
          /\ edge_map = Diamond => result.value = <<"D">>

C21_Witness ==
    /\ op = "get_leaves"
    /\ Mentioned(edge_map) # KeySet(edge_map)
    /\ Len(result.value) >= 1
    /\ \E k \in KeySet(edge_map) : k \notin Range(result.value)
    /\ \E k \in Range(result.value) : ParentSet(edge_map, k) # {}

\* C22: _build_children_map returns the exact reverse of the EdgeMap: its
\* keys are the keys of the EdgeMap and the parents that are not keys, child
\* c occurs in children[p] as many times as p occurs in c's parent list,
\* and every children list follows the key order of the EdgeMap.
C22_IndexIsExactReverse ==
    op = "_build_children_map" =>
        LET children == result.value
        IN /\ NoDup(DictKeys(children))
           /\ KeySet(children) = Mentioned(edge_map)
           /\ \A p \in KeySet(children) :
                 /\ Range(DictGet(children, p, <<>>)) \subseteq KeySet(edge_map)
                 /\ \A c \in KeySet(edge_map) :
                       Count(DictGet(children, p, <<>>), c)
                           = Count(DictGet(edge_map, c, <<>>), p)
                 /\ InKeyOrder(edge_map, DictGet(children, p, <<>>))

C22_Witness ==
    /\ op = "_build_children_map"
    /\ \E p \in KeySet(result.value) \ KeySet(edge_map) :
          \E c \in KeySet(edge_map) : Count(DictGet(result.value, p, <<>>), c) = 2
    /\ \E p \in KeySet(edge_map) : Len(DictGet(result.value, p, <<>>)) >= 1

(***************************************************************************)
(* Agreement between queries.                                              *)
(***************************************************************************)
\* C25: on every EdgeMap, cyclic ones included, and for all nodes a, b,
\* would_create_cycle(a, b) is true exactly when get_path(b, a) returns a
\* path: the depth-first search of the one and the breadth-first search of
\* the other agree.
C25_CycleCheckIffPathBack ==
    op = "get_path" =>
        (result.value.found <=> would_create_cycle(edge_map, args[2], args[1]))

C25_Witness ==
    /\ op = "get_path"
    /\ HasCycle(edge_map)
    /\ result.value.found
    /\ Len(result.value.path) >= 3
    /\ would_create_cycle(edge_map, args[2], args[1])
    /\ ~would_create_cycle(edge_map, args[1], args[2])

\* C28: on every acyclic EdgeMap and for all nodes a, b,
\* get_relationship(a, b) is 'parent' exactly when get_relationship(b, a)
\* is 'child', 'ancestor' exactly when it is 'descendant', and
\* 'unconnected' exactly when it is 'unconnected'.
C28_ConverseConsistent ==
    (op = "get_relationship" /\ ~HasCycle(edge_map)) =>
        LET back == get_relationship(edge_map, args[2], args[1])
        IN /\ result.value = "parent" <=> back = "child"
           /\ result.value = "ancestor" <=> back = "descendant"
           /\ result.value = "unconnected" <=> back = "unconnected"

C28_Witness ==
    /\ op = "get_relationship"
    /\ ~HasCycle(edge_map)
    /\ result.value = "ancestor"
    /\ get_relationship(edge_map, args[2], args[1]) = "descendant"
    /\ \E m \in KeySet(edge_map) :
          get_relationship(edge_map, args[1], m) = "parent"

\* the names of a list of <<name, degree>> entries
Names(r) == {r[i][1] : i \in 1..Len(r)}

\* C29: on every EdgeMap, cyclic ones included, and for every node n, the
\* names returned by get_ancestors_with_degree(n) are the nodes returned by
\* get_ancestors(n), and those of get_descendants_with_degree(n) the nodes
\* of get_descendants(n).
C29_SameNodesBothTraversals ==
    /\ op = "get_ancestors_with_degree" =>
          Names(result.value) = Range(get_ancestors(edge_map, args[1]))
    /\ op = "get_descendants_with_degree" =>
          Names(result.value) = Range(get_descendants(edge_map, args[1]))

C29_Witness ==
    /\ op = "get_ancestors_with_degree"
    /\ HasCycle(edge_map)
    /\ args[1] \in Names(result.value)
    /\ Cardinality(Names(result.value)) >= 3
    /\ Names(result.value) = Range(get_ancestors(edge_map, args[1]))

(***************************************************************************)
(* quick_validate and cycles.                                              *)
(***************************************************************************)
\* the sources of the edges into n, in edge order
RECURSIVE SourcesInto(_, _, _)
SourcesInto(edges, n, i) ==
    IF i > Len(edges) THEN <<>>
    ELSE (IF edges[i][2] = n THEN <<edges[i][1]>> ELSE <<>>) \o SourcesInto(edges, n, i + 1)

\* the EdgeMap with the topology of a document: its nodes as keys, the
\* sources of a node's incoming edges as its parents
EdgeMapOf(json) ==
    [i \in 1..Len(json.nodes) |-> <<json.nodes[i], SourcesInto(json.edges, json.nodes[i], 1)>>]

\* C27: quick_validate does not check acyclicity: a graph whose edges all
\* join listed nodes, are no self-loops and are pairwise different is
\* accepted also when its edges form a directed cycle, and topological_sort
\* of the same topology then raises the cycle error.
C27_CyclesAreAccepted ==
    (op = "quick_validate" /\ \A i \in 1..Len(args[1].edges) : ~Violates(args[1], i)) =>
        /\ result = Returned(TRUE)
        /\ HasCycle(EdgeMapOf(args[1])) =>
              topological_sort(EdgeMapOf(args[1])).raised = "ValueError"

C27_Witness ==
    /\ op = "quick_validate"
    /\ result = Returned(TRUE)
    /\ NoDup(args[1].nodes)
    /\ HasCycle(EdgeMapOf(args[1]))
    /\ topological_sort(EdgeMapOf(args[1])).raised = "ValueError"

(***************************************************************************)
(* Export round trip.                                                      *)
(***************************************************************************)
\* C26: for every list of parsed nodes with pairwise distinct names, the
\* document built by to_causeway_json, compared by validate_parsed_edges
\* with the EdgeMap {name: parents} of the same nodes, gives a report with
\* is_valid true and four empty difference sets, and no TopologyMismatch.
C26_ExportRoundTrip ==
    (op = "to_causeway_json" /\ NoDup(DictKeys(args[1]))) =>
        \A outcome \in validate_parsed_edges(args[1], result.value, TRUE) :
            /\ outcome.raised = "none"
            /\ outcome.value.is_valid
            /\ outcome.value.missing_nodes_in_a = {}
            /\ outcome.value.missing_nodes_in_b = {}
            /\ outcome.value.missing_edges_in_a = {}
            /\ outcome.value.missing_edges_in_b = {}

C26_Witness ==
    /\ op = "to_causeway_json"
    /\ Len(result.value.nodes) >= 2
    /\ ~NoDup(result.value.edges)
    /\ Mentioned(args[1]) # KeySet(args[1])
    /\ \E outcome \in validate_parsed_edges(args[1], result.value, TRUE) :
          outcome.raised = "none" /\ outcome.value.is_valid

(***************************************************************************)
(* Properties of the result and download endpoints.                        *)
(***************************************************************************)
FileEndpoints ==
    {"list_results", "list_result_folders", "download_folder_as_zip", "download_file"}

\* path is PROJECT_ROOT or lies beneath it
WithinRoot(path) ==
    /\ Len(path) >= Len(PROJECT_ROOT)
    /\ SubSeq(path, 1, Len(PROJECT_ROOT)) = PROJECT_ROOT

\* C23: list_results, list_result_folders, download_folder_as_zip and
\* download_file answer 'Access denied', and return no file and no listing,
\* for every request whose resolved path is neither PROJECT_ROOT nor
\* beneath it.
C23_OutsideRootIsDenied ==
    (op \in FileEndpoints /\ ~WithinRoot(args[1])) =>
        /\ result.raised = "none"
        /\ result.value.message = "Access denied"
        /\ result.value.served = <<>>

\* C23, the part the code keeps: a path outside PROJECT_ROOT is denied
\* unless its text begins with the text of PROJECT_ROOT
C23_DeniedUnlessTextBeginsWithRoot ==
    (op \in FileEndpoints /\ ~WithinRoot(args[1])
        /\ ~startswith(path_str(args[1]), path_str(PROJECT_ROOT))) =>
        /\ result.raised = "none"
        /\ result.value.message = "Access denied"
        /\ result.value.served = <<>>

(***************************************************************************)
(* Properties of the job registry.                                         *)
(***************************************************************************)
\* C24: cancel_job answers 'cancelled' for a job only if the job's process
\* was still running when the request was handled; a job whose process had
\* already ended is not reported as cancelled.
C24_CancelledOnlyIfRunning ==
    [][(op' = "cancel_job" /\ result'.value.status = "cancelled") =>
          (HasKey(active_jobs, args'[1])
              /\ ~DictGet(active_jobs, args'[1], Running).exited)]_vars

\* C30: over every sequence of execute, status and cancel requests a started
\* job gets an id no earlier job had, also after jobs were removed, and a
\* job id gets at most one final answer (completed, failed or cancelled),
\* after which status and cancel requests for it are answered not_found.
C30_FreshIdsOneFinalAnswer ==
    /\ NoDup(issued)
    /\ NoDup(terminal)
    /\ (op = "execute_command" /\ result.value.status = "started") =>
          (issued # <<>> /\ result.value.job_id = issued[Len(issued)])
    /\ (op \in {"get_job_status", "cancel_job"} /\ args[1] \in Range(terminal)) =>
          \/ result.value.status = "not_found"
          \/ /\ result.value.status \in TerminalStatuses
             /\ terminal[Len(terminal)] = args[1]

C30_Witness ==
    /\ op = "cancel_job"
    /\ result.value.status = "not_found"
    /\ args[1] \in Range(terminal)
    /\ Len(terminal) >= 2
    /\ Len(active_jobs) >= 1
====
